---------------------------- MODULE Spec2Model ----------------------------
(***************************************************************************)
(* Model of the messaging and notification core of servico10:              *)
(*   - services/chat.ts: createOrGetChat, sendMessage, getChatMessages     *)
(*   - app/chat/[id].tsx: the chat screen's message subscription           *)
(*   - components/NotificationButton (stored in src/firestore.rules from   *)
(*     line 44 on): the notification feed and its unread counter           *)
(*                                                                         *)
(* The Firestore document store is an external collaborator.  It is        *)
(* modelled as a server that applies each read or write atomically:        *)
(* getDocs reads the committed documents, addDoc commits one document      *)
(* under a fresh auto-generated id, updateDoc patches one document, and a  *)
(* snapshot listener delivers the complete current result of its query     *)
(* while it is attached.  Every awaited store call is its own step, so     *)
(* calls made by different devices interleave at each await.               *)
(***************************************************************************)
EXTENDS Integers, Sequences, FiniteSets

\* ------------------------------------------------------------------ bounds
MaxCalls == 3   \* createOrGetChat calls issued in one behaviour
MaxSends == 2   \* sendMessage calls issued in one behaviour
MaxTime  == 1   \* device clocks and document timestamps range over 0..MaxTime

Users   == {"u1", "u2", "u3"}
Providers == {"u1", "u2"}   \* the users that have a provider listing
NoUser  == "none"
NoId    == 0
CallIds == 1..MaxCalls
ChatIds == 1..MaxCalls
MsgIds  == 1..MaxSends
Times   == 0..MaxTime

VARIABLES
  chats,        \* the 'chats' collection: a set of conversation documents
  returned,     \* <<currentUserId, otherUserId, id>> of every createOrGetChat call that returned
  calls,        \* per createOrGetChat call: position and arguments
  overlapped,   \* unordered pairs for which two createOrGetChat calls were in flight together
  clock,        \* per device: the value Timestamp.now() returned last
  messages,     \* the 'chats/{id}/messages' documents, all conversations
  sends,        \* per device: position and arguments of its sendMessage call
  nSent,        \* number of sendMessage calls issued
  precedes,     \* <<m1, m2>>: the send of message m1 had ended when the send of m2 started
  subChat,      \* chat screen: id of the conversation whose listener is attached, or NoId
  snapDue,      \* chat screen: a snapshot of the listener's query is due for delivery
  msgView,      \* chat screen: the `messages` state (the last delivered list)
  user,         \* notification button: uid of the signed-in user (useAuth), or NoUser
  notifSub,     \* notification button: per listener (chats, reviews), the uid it is attached for, or NoUser
  notifications,\* notification button: the `notifications` state (the feed)
  unreadCount,  \* notification button: the `unreadCount` state
  countDue,     \* notification button: the unread-count effect is scheduled
  lastChats,    \* the snapshot the chats listener delivered last
  lastReviews,  \* the snapshot the reviews listener delivered last
  lastOp,       \* notification button: the last step that wrote the feed, and what it did
  providers,    \* discovery screen: the `providers` state (the loaded list)
  filteredProviders,    \* home screen: the `filteredProviders` state (the displayed list)
  selectedService,      \* home screen: the service filter ('' when unset)
  selectedNeighborhood, \* home screen: the neighborhood filter ('' when unset)
  searchText,   \* home screen: the free text ('' when unset)
  userLocation, \* discovery screen: the `userLocation` state, or NoLoc (null)
  searchRadius, \* discovery screen: the `searchRadius` state
  loading,      \* discovery screen: the `loading` state
  refreshing,   \* discovery screen: the `refreshing` state
  savedRadius,  \* AsyncStorage: the string under 'searchRadius', or NoValue
  saving,       \* SearchFilters: the handleRadiusChange call awaiting setItem, or NotSaving
  loads,        \* the loadProviders calls awaiting getDocs, oldest first
  nLoads,       \* number of loadProviders calls issued
  loadOutcome,  \* how the loadProviders call that ended last ended
  filterDue,    \* home screen: the filterProviders effect is scheduled
  loadDue,      \* map screen: the loadProviders effect is scheduled
  locPending,   \* the getCurrentLocation() of the mount effect has not resolved
  radiusPending,\* the getItem of loadSearchRadius has not resolved
  refreshes,    \* the onRefresh calls awaiting getCurrentLocation(), oldest first
  screen,       \* the discovery screen that is mounted: "home", "map" or "none"
  users,        \* the 'users' documents the providers query matches, in getDocs order
  newMessage,   \* chat screen, per device: the `newMessage` state (the draft)
  timeShown     \* notification list: the time labels rendered last, and when

vars == <<chats, calls, overlapped, returned, clock, messages, sends, nSent, precedes,
          subChat, snapDue, msgView,
          user, notifSub, notifications, unreadCount, countDue, lastChats, lastReviews,
          lastOp,
          providers, filteredProviders, selectedService, selectedNeighborhood, searchText,
          userLocation, searchRadius, loading, refreshing, savedRadius, saving,
          loads, nLoads, loadOutcome, filterDue, loadDue, locPending, radiusPending, refreshes,
          screen, users, newMessage, timeShown>>

chatVars == <<chats, calls, overlapped, returned>>
msgVars  == <<messages, sends, nSent>>
subVars  == <<subChat, snapDue, msgView>>
notifVars == <<user, notifSub, notifications, unreadCount, countDue, lastChats, lastReviews>>
listVars == <<providers, filteredProviders, loading, refreshing, loads, nLoads, loadOutcome,
              filterDue, loadDue, refreshes>>
queryVars == <<selectedService, selectedNeighborhood, searchText, userLocation, searchRadius,
               savedRadius, saving, locPending, radiusPending>>
discVars == <<listVars, queryVars, screen, users, timeShown>>

\* ----------------------------------------------------------------- helpers
NoLoc    == -1     \* userLocation null
NoDist   == -1     \* a provider object without a `distance` property
NoRadius == 0      \* parseInt of a string without digits (NaN); no radius
NoValue  == <<>>   \* AsyncStorage.getItem returns null
NoOp     == [op |-> "none", reset |-> FALSE]
EmptyText == <<0, 0, 0>>   \* the string '' (see the chat screen's draft)
NoShown  == [at |-> 0, labels |-> <<>>]   \* the notification list was not rendered
NotSaving == [radius |-> NoRadius, origin |-> NoLoc]   \* handleRadiusChange is not running

\* useState<number>(5)
DefaultRadius == 5

\* The discovery screen before it is mounted: the initial values of its states.
ScreenUnmounted ==
  /\ providers = <<>>
  /\ filteredProviders = <<>>
  /\ selectedService = <<>>
  /\ selectedNeighborhood = <<>>
  /\ searchText = <<>>
  /\ userLocation = NoLoc
  /\ searchRadius = DefaultRadius
  /\ loading = TRUE
  /\ refreshing = FALSE
  /\ savedRadius = NoValue
  /\ saving = NotSaving
  /\ loads = <<>>
  /\ nLoads = 0
  /\ loadOutcome = "none"
  /\ filterDue = FALSE
  /\ loadDue = FALSE
  /\ locPending = FALSE
  /\ radiusPending = FALSE
  /\ refreshes = <<>>
  /\ screen = "none"
  /\ users = <<>>

Max(S) == CHOOSE x \in S : \A y \in S : y <= x

\* Array.prototype.includes on a participants array
Includes(arr, x) == \E i \in 1..Len(arr) : arr[i] = x

\* the unordered pair of a participants array or of a call's arguments
PairOf(a, b) == {a, b}
Parts(c)     == {c.participants[i] : i \in 1..Len(c.participants)}

\* --------------------------------------------------- createOrGetChat
\* query(chatsRef, where('participants', 'array-contains', currentUserId))
ChatsWith(chs, cur) == {c \in chs : Includes(c.participants, cur)}

\* The forEach scan of the query result.  A query without orderBy returns the
\* documents in ascending id order and the scan keeps the last match.
ExistingChatOrdered(chs, cur, other) ==
  LET m == {c.id : c \in {d \in ChatsWith(chs, cur) : d.participants = <<cur, other>>}}
  IN  IF m = {} THEN NoId ELSE Max(m)

\* A scan that stops at the first match.
ExistingChatFirst(chs, cur, other) ==
  LET m == {c.id : c \in {d \in ChatsWith(chs, cur) : Includes(d.participants, other)}}
  IN  IF m = {} THEN NoId ELSE CHOOSE x \in m : \A y \in m : x <= y

ExistingChat(chs, cur, other) ==
  LET m == {c.id : c \in {d \in ChatsWith(chs, cur) : Includes(d.participants, other)}}
  IN  IF m = {} THEN NoId ELSE Max(m)

\* chatData of a new conversation
NewChat(id, cur, other, now) ==
  [id |-> id, participants |-> <<cur, other>>,
   lastMessage |-> "", lastMessageTime |-> now, createdAt |-> now]

IdleCall == [pc |-> "idle", cur |-> NoUser, other |-> NoUser]

\* A call that has ended keeps no state of its own: what it returned is in `returned`.
FailedCall == [pc |-> "failed", cur |-> NoUser, other |-> NoUser]
DoneCall   == [pc |-> "done", cur |-> NoUser, other |-> NoUser]

InFlight(k) == calls[k].pc \in {"querying", "creating"}

\* The call is entered: the query is built and getDocs is issued.
StartCall(k, cur, other) ==
  /\ calls[k].pc = "idle"
  /\ \A j \in CallIds : j < k => calls[j].pc # "idle"
  /\ calls' = [calls EXCEPT ![k] = [pc |-> "querying", cur |-> cur, other |-> other]]
  /\ overlapped' =
       IF \E j \in CallIds : InFlight(j) /\ PairOf(calls[j].cur, calls[j].other) = PairOf(cur, other)
       THEN overlapped \cup {PairOf(cur, other)}
       ELSE overlapped
  /\ UNCHANGED <<lastOp, discVars, newMessage, returned, chats, clock, msgVars, precedes, subVars, notifVars>>

\* getDocs resolves: scan, then either return the existing id or go on to create.
QueryDone(k) ==
  /\ calls[k].pc = "querying"
  /\ LET existingChatId == ExistingChat(chats, calls[k].cur, calls[k].other)
     IN  /\ calls' = [calls EXCEPT ![k] =
                     IF existingChatId # NoId
                     THEN DoneCall
                     ELSE [@ EXCEPT !.pc = "creating"]]
         /\ returned' = IF existingChatId # NoId THEN returned \cup {<<calls[k].cur, calls[k].other, existingChatId>>}
                         ELSE returned
  /\ UNCHANGED <<lastOp, discVars, newMessage, chats, overlapped, clock, msgVars, precedes, subVars, notifVars>>

\* getDocs rejects: the catch block rethrows.
QueryFail(k) ==
  /\ calls[k].pc = "querying"
  /\ calls' = [calls EXCEPT ![k] = FailedCall]
  /\ UNCHANGED <<lastOp, discVars, newMessage, returned, chats, overlapped, clock, msgVars, precedes, subVars, notifVars>>

\* A create that stores nothing when the pair already has a conversation and
\* returns that conversation's id.
CreateDoneOncePerPair(k) ==
  /\ calls[k].pc = "creating"
  /\ LET found == ExistingChat(chats, calls[k].cur, calls[k].other)
     IN  \E id \in ChatIds \ {c.id : c \in chats} :
           /\ chats' = IF found # NoId THEN chats
                        ELSE chats \cup {NewChat(id, calls[k].cur, calls[k].other, clock[calls[k].cur])}
           /\ calls' = [calls EXCEPT ![k] = DoneCall]
           /\ returned' = returned \cup {<<calls[k].cur, calls[k].other,
                                             IF found # NoId THEN found ELSE id>>}
  /\ UNCHANGED <<lastOp, discVars, newMessage, overlapped, clock, msgVars, precedes, subVars, notifVars>>

\* addDoc commits the new conversation under a fresh auto-generated id.
CreateDone(k) ==
  /\ calls[k].pc = "creating"
  /\ \E id \in ChatIds \ {c.id : c \in chats} :
       /\ chats' = chats \cup {NewChat(id, calls[k].cur, calls[k].other, clock[calls[k].cur])}
       /\ calls' = [calls EXCEPT ![k] = DoneCall]
       /\ returned' = returned \cup {<<calls[k].cur, calls[k].other, id>>}
  /\ UNCHANGED <<lastOp, discVars, newMessage, overlapped, clock, msgVars, precedes, subVars, notifVars>>

\* An addDoc that rejects after the document was stored.
CreateFailStored(k) ==
  /\ calls[k].pc = "creating"
  /\ \E id \in ChatIds \ {c.id : c \in chats} :
       chats' = chats \cup {NewChat(id, calls[k].cur, calls[k].other, clock[calls[k].cur])}
  /\ calls' = [calls EXCEPT ![k] = FailedCall]
  /\ UNCHANGED <<lastOp, discVars, newMessage, returned, overlapped, clock, msgVars, precedes, subVars, notifVars>>

\* addDoc rejects: nothing is stored, the catch block rethrows.
CreateFail(k) ==
  /\ calls[k].pc = "creating"
  /\ calls' = [calls EXCEPT ![k] = FailedCall]
  /\ UNCHANGED <<lastOp, discVars, newMessage, returned, chats, overlapped, clock, msgVars, precedes, subVars, notifVars>>

\* No createOrGetChat or sendMessage call was made, no listener is attached,
\* nobody is signed in.
MessagingIdle ==
  /\ chats = {}
  /\ calls = [k \in CallIds |-> IdleCall]
  /\ overlapped = {}
  /\ returned = {}
  /\ clock = [u \in Users |-> 0]
  /\ messages = {}
  /\ sends = [u \in {"u1", "u2"} |-> [pc |-> "idle", chat |-> NoId, text |-> "", ts |-> 0, msg |-> NoId]]
  /\ nSent = 0
  /\ precedes = {}
  /\ subChat = NoId
  /\ snapDue = FALSE
  /\ msgView = <<>>
  /\ user = NoUser
  /\ notifSub = [chats |-> NoUser, reviews |-> NoUser]
  /\ notifications = <<>>
  /\ unreadCount = 0
  /\ countDue = FALSE
  /\ lastChats = <<>>
  /\ lastReviews = <<>>
  /\ lastOp = NoOp
  /\ newMessage = [u \in {"u1", "u2"} |-> EmptyText]
  /\ timeShown = NoShown

InitChat == MessagingIdle /\ ScreenUnmounted

NextChat ==
  \/ \E k \in CallIds, cur \in Users, other \in Providers : StartCall(k, cur, other)
  \/ \E k \in CallIds : QueryDone(k)
  \/ \E k \in CallIds : QueryFail(k)
  \/ \E k \in CallIds : CreateDone(k)
  \/ \E k \in CallIds : CreateFail(k)

SpecChat == InitChat /\ [][NextChat]_vars

\* ------------------------------------------------- claims on createOrGetChat
ChatsOfPair(P) == {c \in chats : Parts(c) = P}
ReturnedFor(P) == {r[3] : r \in {x \in returned : PairOf(x[1], x[2]) = P}}
DistinctPairs  == {PairOf(a, b) : a \in Users, b \in Providers} \ {{u} : u \in Users}

\* C1: for two distinct users whose createOrGetChat calls never overlapped, every
\* call that returned, in either argument order, returned the same id, that id is
\* the id of the pair's conversation, and the pair has one conversation document.
C1_SequentialIdempotent ==
  \A P \in DistinctPairs :
    P \notin overlapped =>
      /\ Cardinality(ReturnedFor(P)) <= 1
      /\ Cardinality(ChatsOfPair(P)) <= 1
      /\ ReturnedFor(P) \subseteq {c.id : c \in ChatsOfPair(P)}

\* C1 witness: calls (A, B) and (B, A) that did not overlap both returned id c.
C1_Witness ==
  \E a \in Users, b \in Users, c \in ChatIds :
    /\ a # b
    /\ PairOf(a, b) \notin overlapped
    /\ <<a, b, c>> \in returned
    /\ <<b, a, c>> \in returned

\* C2: at most one conversation document exists for each unordered pair of
\* participants, in every reachable state.
C2_AtMostOneChatPerPair ==
  \A c \in chats, d \in chats : Parts(c) = Parts(d) => c.id = d.id

PairChats(chs, P) == {c \in chs : Parts(c) = P}

\* C18: a call whose existence query found nothing creates a document whatever
\* has been stored since: when its addDoc commits, the pair has one conversation
\* more than before and the call returns an id no call returned and no document
\* had before.  Two calls for one pair that both passed the query thus leave
\* two conversations and return different ids.
C18_LookupThenCreateRace ==
  [][\A k \in CallIds :
       (calls[k].pc = "creating" /\ calls'[k].pc = "done") =>
         LET P == PairOf(calls[k].cur, calls[k].other)
         IN  /\ Cardinality(PairChats(chats', P)) = Cardinality(PairChats(chats, P)) + 1
             /\ \E id \in ChatIds :
                   /\ returned' = returned \cup {<<calls[k].cur, calls[k].other, id>>}
                   /\ id \notin {c.id : c \in chats}
                   /\ id \notin {r[3] : r \in returned}
                   /\ id \in {c.id : c \in PairChats(chats', P)}]_vars

\* C18 witness: calls (A, B) and (B, A) overlapped, each created a document
\* and they returned different ids.
C18_Witness ==
  \E a \in Users, b \in Users, x \in chats, y \in chats :
    /\ a # b /\ x.id # y.id
    /\ PairOf(a, b) \in overlapped
    /\ x.participants = <<a, b>> /\ y.participants = <<b, a>>
    /\ <<a, b, x.id>> \in returned /\ <<b, a, y.id>> \in returned

\* C25: when the existence query or the create of a createOrGetChat call
\* fails, the call throws: the store is as before, the caller receives no
\* conversation id (handleStartChat navigates only with a returned id), and no
\* call is started in its place.
C25_FailureLeavesNoState ==
  [][\A k \in CallIds :
       (InFlight(k) /\ calls'[k].pc = "failed") =>
         /\ chats' = chats
         /\ returned' = returned
         /\ \A j \in CallIds \ {k} : calls'[j] = calls[j]]_vars

\* C25 witness: two calls failed, nothing is stored and no id was returned,
\* and a third call, started by the user, has passed its query.
C25_Witness ==
  /\ calls[1].pc = "failed" /\ calls[2].pc = "failed"
  /\ calls[3].pc = "creating"
  /\ chats = {} /\ returned = {}

\* C27: every conversation document has a participants list of two distinct
\* user ids.
C27_TwoDistinctParticipants ==
  \A c \in chats : Len(c.participants) = 2 /\ c.participants[1] # c.participants[2]

\* C28: while the store holds two or more conversations of a pair of distinct
\* users, a call for the pair, in either argument order, whose query resolves
\* returns the id of the last of them in query order (the same id for both
\* orders) and stores nothing.
C28_ConvergenceAfterDuplicate ==
  [][\A k \in CallIds :
       LET P == PairOf(calls[k].cur, calls[k].other)
           ids == {c.id : c \in PairChats(chats, P)}
       IN  (/\ calls[k].pc = "querying" /\ calls'[k].pc \notin {"querying", "failed"}
            /\ Cardinality(P) = 2
            /\ Cardinality(ids) >= 2) =>
             /\ calls'[k].pc = "done"
             /\ chats' = chats
             /\ returned' = returned \cup {<<calls[k].cur, calls[k].other, Max(ids)>>}]_vars

\* C28 witness: a pair has two conversations, created by two calls that
\* overlapped, and a third call for the pair returned the id of the last one.
C28_Witness ==
  \E a \in Users, b \in Users, x \in chats, y \in chats :
    /\ a # b /\ x.id < y.id
    /\ Parts(x) = {a, b} /\ Parts(y) = {a, b}
    /\ \A k \in CallIds : calls[k].pc = "done"
    /\ Cardinality({r \in returned : PairOf(r[1], r[2]) = {a, b}}) = 3
    /\ Cardinality({r \in returned : PairOf(r[1], r[2]) = {a, b} /\ r[3] = y.id}) = 2

\* ------------------------------------------------------------ sendMessage
\* The devices that take part in the modelled conversation.
MsgUsers == {"u1", "u2"}

\* The conversation the messaging specifications start from: the document a
\* completed createOrGetChat("u1", "u2", ..) call leaves in the store.
MsgChat == 1

MsgsOf(ms, chatId) == {m \in ms : m.chatId = chatId}

\* the message document of addDoc(messagesRef, {senderId, senderName, text, timestamp});
\* seq is the position of the commit in the store's commit order
NewMessage(id, chatId, senderId, text, ts, seq) ==
  [id |-> id, chatId |-> chatId, senderId |-> senderId, text |-> text,
   timestamp |-> ts, seq |-> seq]

\* The chat screen of a device has no send in flight (loading = false); pc keeps
\* how its last send ended: "idle" (none yet), "done" or "failed".
RestingSend(pc) == [pc |-> pc, chat |-> NoId, text |-> "", ts |-> 0, msg |-> NoId]

\* The send button is disabled while loading: one send in flight per device.
Loading(u) == sends[u].pc \in {"adding", "updating"}

\* The text of the n-th call: the code never looks into a text, so each call
\* carries a text of its own.
TextOf(n) == <<"a", "b", "c", "d">>[n]

\* ids of the stored messages whose sendMessage call has ended
EndedMsgs == {m.id : m \in messages} \ {sends[u].msg : u \in MsgUsers}

\* Timestamp.now() on device u: the device's wall clock, which does not run
\* backwards on one device and is not synchronised between devices.  clock[u]
\* is the last value device u read; a read returns that value or a later one.
ReadsClock(u, now) == now \in Times /\ now >= clock[u]

\* handleSendMessage calls sendMessage: the message document is built (its auto
\* id and timestamp: Timestamp.now() are taken on the device), addDoc is issued.
StartSend(u, chatId, text) ==
  /\ ~Loading(u)
  /\ nSent < MaxSends
  /\ nSent' = nSent + 1
  /\ \E id \in MsgIds \ ({m.id : m \in messages} \cup {sends[v].msg : v \in MsgUsers}), now \in Times :
       /\ ReadsClock(u, now)
       /\ clock' = [clock EXCEPT ![u] = now]
       /\ sends' = [sends EXCEPT ![u] = [pc |-> "adding", chat |-> chatId,
                                         text |-> text, ts |-> now, msg |-> id]]
       /\ precedes' = precedes \cup {<<m, id>> : m \in EndedMsgs}
  /\ UNCHANGED <<lastOp, discVars, newMessage, chatVars, messages, subVars, notifVars>>

\* addDoc commits the message; the call goes on to build the update of the
\* conversation (lastMessageTime: Timestamp.now()) and issues updateDoc.
AddDone(u) ==
  /\ sends[u].pc = "adding"
  /\ messages' = messages \cup
       {NewMessage(sends[u].msg, sends[u].chat, u, sends[u].text,
                   sends[u].ts, Cardinality(messages) + 1)}
  /\ \E now \in Times :
       /\ ReadsClock(u, now)
       /\ clock' = [clock EXCEPT ![u] = now]
       /\ sends' = [sends EXCEPT ![u].pc = "updating", ![u].ts = now]
  /\ snapDue' = (snapDue \/ subChat = sends[u].chat)
  /\ UNCHANGED <<lastOp, discVars, newMessage, chatVars, nSent, precedes, subChat, msgView, notifVars>>

\* addDoc rejects: no message is stored, the catch block rethrows.
AddFail(u) ==
  /\ sends[u].pc = "adding"
  /\ sends' = [sends EXCEPT ![u] = RestingSend("failed")]
  /\ UNCHANGED <<lastOp, discVars, newMessage, chatVars, clock, messages, nSent, precedes, subVars, notifVars>>

\* the conversation after updateDoc(chatRef, {lastMessage, lastMessageTime})
SetLastMessage(chs, chatId, text, now) ==
  {IF c.id = chatId THEN [c EXCEPT !.lastMessage = text, !.lastMessageTime = now] ELSE c : c \in chs}

\* updateDoc commits and sendMessage returns: handleSendMessage continues with
\* setNewMessage('') and, in its finally block, setLoading(false).
UpdateDone(u) ==
  /\ sends[u].pc = "updating"
  /\ chats' = SetLastMessage(chats, sends[u].chat, sends[u].text, sends[u].ts)
  /\ sends' = [sends EXCEPT ![u] = RestingSend("done")]
  /\ newMessage' = [newMessage EXCEPT ![u] = EmptyText]
  /\ UNCHANGED <<lastOp, discVars, calls, overlapped, returned, clock, messages, nSent, precedes, subVars, notifVars>>

\* updateDoc rejects: the message stays stored, the catch block rethrows.
UpdateFail(u) ==
  /\ sends[u].pc = "updating"
  /\ sends' = [sends EXCEPT ![u] = RestingSend("failed")]
  /\ UNCHANGED <<lastOp, discVars, newMessage, chatVars, clock, messages, nSent, precedes, subVars, notifVars>>

\* ------------------------------------- getChatMessages and the chat screen
\* query(messagesRef, orderBy('timestamp', 'asc')): ascending timestamp, equal
\* timestamps in ascending document id
MsgBefore(m1, m2) ==
  \/ m1.timestamp < m2.timestamp
  \/ m1.timestamp = m2.timestamp /\ m1.id < m2.id

RECURSIVE OrderedMsgs(_)
OrderedMsgs(ms) ==
  IF ms = {} THEN <<>>
  ELSE LET first == CHOOSE m \in ms : \A o \in ms \ {m} : MsgBefore(m, o)
       IN  <<first>> \o OrderedMsgs(ms \ {first})

\* The effect of the chat screen runs: getChatMessages attaches the listener.
Subscribe(chatId) ==
  /\ subChat = NoId
  /\ subChat' = chatId
  /\ snapDue' = TRUE
  /\ UNCHANGED <<lastOp, discVars, newMessage, chatVars, clock, msgVars, precedes, msgView, notifVars>>

\* A listener that hands over only the documents added since its last delivery.
DeliverAddedOnly ==
  /\ subChat # NoId
  /\ snapDue
  /\ msgView' = OrderedMsgs({m \in MsgsOf(messages, subChat) :
                               \A i \in 1..Len(msgView) : msgView[i].id # m.id})
  /\ snapDue' = FALSE
  /\ UNCHANGED <<lastOp, discVars, newMessage, chatVars, clock, msgVars, precedes, subChat, notifVars>>

\* The listener's callback runs with the query's current result: setMessages.
Deliver ==
  /\ subChat # NoId
  /\ snapDue
  /\ msgView' = OrderedMsgs(MsgsOf(messages, subChat))
  /\ snapDue' = FALSE
  /\ UNCHANGED <<lastOp, discVars, newMessage, chatVars, clock, msgVars, precedes, subChat, notifVars>>

\* The effect's cleanup runs: the unsubscribe function getChatMessages returned.
Unsubscribe ==
  /\ subChat # NoId
  /\ subChat' = NoId
  /\ snapDue' = FALSE
  /\ UNCHANGED <<lastOp, discVars, newMessage, chatVars, clock, msgVars, precedes, msgView, notifVars>>

InitMsg ==
  /\ chats = {NewChat(MsgChat, "u1", "u2", 0)}
  /\ calls = [k \in CallIds |-> IdleCall]
  /\ overlapped = {}
  /\ returned = {}
  /\ clock = [u \in Users |-> 0]
  /\ messages = {}
  /\ sends = [u \in MsgUsers |-> RestingSend("idle")]
  /\ nSent = 0
  /\ precedes = {}
  /\ subChat = NoId
  /\ snapDue = FALSE
  /\ msgView = <<>>
  /\ user = NoUser
  /\ notifSub = [chats |-> NoUser, reviews |-> NoUser]
  /\ notifications = <<>>
  /\ unreadCount = 0
  /\ countDue = FALSE
  /\ lastChats = <<>>
  /\ lastReviews = <<>>
  /\ lastOp = NoOp
  /\ newMessage = [u \in {"u1", "u2"} |-> EmptyText]
  /\ timeShown = NoShown
  /\ ScreenUnmounted

NextMsg ==
  \/ \E u \in MsgUsers : StartSend(u, MsgChat, TextOf(nSent + 1))
  \/ \E u \in MsgUsers : AddDone(u)
  \/ \E u \in MsgUsers : AddFail(u)
  \/ \E u \in MsgUsers : UpdateDone(u)
  \/ \E u \in MsgUsers : UpdateFail(u)
  \/ Subscribe(MsgChat)
  \/ Deliver
  \/ Unsubscribe

SpecMsg == InitMsg /\ [][NextMsg]_vars

\* The specification of the listener's progress.  What the listener delivers
\* does not depend on which device sends, so one device sends here.  The event
\* loop runs a callback that is due: a due delivery is not postponed for ever
\* while the listener stays attached.
NextMsgLive ==
  \/ StartSend("u1", MsgChat, TextOf(nSent + 1))
  \/ AddDone("u1")
  \/ AddFail("u1")
  \/ UpdateDone("u1")
  \/ UpdateFail("u1")
  \/ Subscribe(MsgChat)
  \/ Deliver
  \/ Unsubscribe

SpecMsgLive == InitMsg /\ [][NextMsgLive]_vars /\ WF_vars(Deliver)

\* The sends of the two participants when every store call succeeds.
NextSends ==
  \/ \E u \in MsgUsers : StartSend(u, MsgChat, TextOf(nSent + 1))
  \/ \E u \in MsgUsers : AddDone(u)
  \/ \E u \in MsgUsers : UpdateDone(u)

SpecSends == InitMsg /\ [][NextSends]_vars

\* ------------------------------------------------- the chat screen's draft
\* A text of the draft is a run of spaces, a run of other characters and a run
\* of spaces: <<leading, core, trailing>> holds the three lengths.  A text of
\* spaces only is <<n, 0, 0>>.
\* The specifications of sendMessage above give each call a text of its own
\* and leave the draft alone; SpecDraft sends what the draft holds.
TrimNothing(t) == t

\* String.prototype.trim
Trim(t) == <<0, t[2], 0>>

\* maxLength={500} of the TextInput
MaxLength == 500

\* what the TextInput hands to onChangeText for an input: its first MaxLength characters
Truncate(t) ==
  LET lead == IF t[1] < MaxLength THEN t[1] ELSE MaxLength
      core == IF t[2] < MaxLength - lead THEN t[2] ELSE MaxLength - lead
      rest == IF t[3] < MaxLength - lead - core THEN t[3] ELSE MaxLength - lead - core
  IN  IF core = 0 THEN <<lead + rest, 0, 0>> ELSE <<lead, core, rest>>

\* what the user types or pastes: nothing, spaces, a short text between spaces,
\* and texts of MaxLength - 1 to MaxLength + 1 characters
TypedTexts ==
  {EmptyText, <<2, 0, 0>>, <<1, 1, 1>>, <<0, MaxLength, 0>>, <<0, MaxLength + 1, 0>>,
   <<1, MaxLength - 1, 1>>}

\* onChangeText={setNewMessage}
SetNewMessage(u, text) ==
  /\ newMessage' = [newMessage EXCEPT ![u] = Truncate(text)]
  /\ UNCHANGED <<lastOp, discVars, chatVars, clock, msgVars, precedes, subVars, notifVars>>

\* The send button is pressed (it is disabled while loading): handleSendMessage
\* returns when the trimmed draft is empty and calls sendMessage with the
\* trimmed draft otherwise.
HandleSendMessage(u) ==
  /\ ~Loading(u)
  /\ IF Trim(newMessage[u]) = EmptyText
     THEN UNCHANGED vars
     ELSE StartSend(u, MsgChat, Trim(newMessage[u]))

\* The chat screen of device u1: the draft is edited and sent.
NextDraft ==
  \/ \E text \in TypedTexts : SetNewMessage("u1", text)
  \/ HandleSendMessage("u1")
  \/ AddDone("u1")
  \/ AddFail("u1")
  \/ UpdateDone("u1")
  \/ UpdateFail("u1")

SpecDraft == InitMsg /\ [][NextDraft]_vars

\* -------------------------------------------------- claims on messaging
ViewIds   == {msgView[i].id : i \in 1..Len(msgView)}
StoredIds == {m.id : m \in MsgsOf(messages, subChat)}

\* a step in which the attached listener's callback ran
DeliveryStep == subChat # NoId /\ subChat' = subChat /\ snapDue /\ ~snapDue'

\* C3 (first half): every delivered list is in non-decreasing timestamp order.
DeliveredSorted ==
  \A i \in 1..Len(msgView), j \in 1..Len(msgView) :
    i < j => msgView[i].timestamp <= msgView[j].timestamp

\* C3: every delivered list is sorted by non-decreasing timestamp, and a message
\* whose send had ended before another message's send started comes before it
\* in every delivered list that holds both.
C3_MessageOrdering ==
  /\ DeliveredSorted
  /\ \A i \in 1..Len(msgView), j \in 1..Len(msgView) :
       <<msgView[i].id, msgView[j].id>> \in precedes => i < j

\* C4: a delivery is the complete stored history of the conversation (so the
\* first one holds all that was stored when the listener was attached, the
\* store only growing), no message delivered earlier is missing later, and a
\* message stored while the listener is attached is delivered unless the
\* listener is released first.
C4_ReplayThenLive ==
  /\ [][DeliveryStep => ViewIds' = StoredIds]_vars
  /\ [][messages \subseteq messages' /\ ViewIds \subseteq ViewIds']_vars
  /\ \A id \in MsgIds :
       (subChat # NoId /\ id \in StoredIds) ~> (subChat = NoId \/ id \in ViewIds)

\* C4 witness: the listener delivered a first message and then, still attached,
\* a list holding a second one.
C4_Witness ==
  /\ subChat # NoId
  /\ ~snapDue
  /\ Len(msgView) >= 2
  /\ ViewIds = StoredIds

\* C5: the conversation's lastMessage is the text of the message committed
\* last (and '' while there is none) in every state: no state shows a stored
\* message whose lastMessage update is not applied, also after a failed send.
LatestMsg(chatId) ==
  CHOOSE m \in MsgsOf(messages, chatId) : \A o \in MsgsOf(messages, chatId) : o.seq <= m.seq

C5_LastMessageAtomic ==
  \A c \in chats :
    IF MsgsOf(messages, c.id) = {} THEN c.lastMessage = ""
    ELSE c.lastMessage = LatestMsg(c.id).text

\* the number of characters of a text
TextLength(t) == t[1] + t[2] + t[3]

\* a text sendMessage may be called with: not empty, trimmed, at most MaxLength long
ValidText(t) == t[1] = 0 /\ t[3] = 0 /\ t[2] >= 1 /\ TextLength(t) <= MaxLength

\* C26: a send starts only from a draft whose trimmed text has 1 to 500
\* characters, and with that trimmed text; from a draft that is empty after
\* trimming no sendMessage call of the device starts (the store is written by
\* sendMessage calls only), so that every stored message has such a text.
\* When a send fails the draft is as before; when it succeeds the draft is
\* cleared.
C26_MessageValidation ==
  /\ [](\A m \in messages : ValidText(m.text))
  /\ [][\A u \in MsgUsers :
          /\ (~Loading(u) /\ Loading(u)') =>
               /\ ValidText(Trim(newMessage[u]))
               /\ sends'[u].text = Trim(newMessage[u])
               /\ messages' = messages /\ chats' = chats
          /\ (~Loading(u) /\ Trim(newMessage[u]) = EmptyText) =>
               sends'[u] = sends[u]
          /\ (Loading(u) /\ sends'[u].pc = "failed") => newMessage'[u] = newMessage[u]
          /\ (Loading(u) /\ sends'[u].pc = "done") => newMessage'[u] = EmptyText]_vars

\* C26 witness: a message of 500 characters is stored, a later send failed and
\* the draft it was made from, with its surrounding spaces, is still held.
C26_Witness ==
  /\ \E m \in messages : m.text = <<0, MaxLength, 0>>
  /\ sends["u1"].pc = "failed"
  /\ newMessage["u1"] = <<1, 1, 1>>

\* ------------------------------------------------ NotificationButton
\* The conversations and reviews of the store the notification specification
\* draws its snapshots from: conversation 1 is between u1 and u2, conversation
\* 2 between u3 and u1; reviews 1 and 2 are addressed to provider u1.
NotifUsers   == {"u1", "u2"}
NotifChatIds == {1, 2}
ReviewIds    == {1, 2}
ChatParticipants(id) == IF id = 1 THEN <<"u1", "u2">> ELSE <<"u3", "u1">>
ReviewProvider(id)   == "u1"

ChatLimit   == 10
ReviewLimit == 5

Take(seq, n) == IF Len(seq) <= n THEN seq ELSE SubSeq(seq, 1, n)

\* A query ordered by a timestamp field, descending; documents with equal
\* timestamps come in descending id order.
NewerDoc(d1, d2) == d1.time > d2.time \/ (d1.time = d2.time /\ d1.id > d2.id)

RECURSIVE NewestFirst(_)
NewestFirst(docs) ==
  IF docs = {} THEN <<>>
  ELSE LET first == CHOOSE d \in docs : \A o \in docs \ {d} : NewerDoc(d, o)
       IN  <<first>> \o NewestFirst(docs \ {first})

\* where('participants', 'array-contains', user.uid), orderBy('lastMessageTime', 'desc'), limit(10)
ChatsQuery(docs, uid) ==
  Take(NewestFirst({d \in docs : Includes(ChatParticipants(d.id), uid)}), ChatLimit)

\* where('providerId', '==', user.uid), orderBy('createdAt', 'desc'), limit(5)
ReviewsQuery(docs, uid) ==
  Take(NewestFirst({d \in docs : ReviewProvider(d.id) = uid}), ReviewLimit)

\* The states the two collections can be in: any of the conversations and
\* reviews may exist, with any last message and any timestamps.
ChatDocSets ==
  UNION {{{[id |-> i, text |-> f[i][1], time |-> f[i][2]] : i \in ids} :
            f \in [ids -> {"", "a"} \X Times]} : ids \in SUBSET NotifChatIds}

ReviewDocSets ==
  UNION {{{[id |-> i, text |-> "5 estrelas", time |-> f[i]] : i \in ids} :
            f \in [ids -> Times]} : ids \in SUBSET ReviewIds}

\* the Notification object the chats callback builds for a conversation
MessageNotification(d) ==
  [id |-> <<"message", d.id>>, type |-> "message", message |-> d.text,
   timestamp |-> d.time, read |-> FALSE]

\* the Notification object the reviews callback builds for a review
ReviewNotification(d) ==
  [id |-> <<"review", d.id>>, type |-> "review", message |-> d.text,
   timestamp |-> d.time, read |-> FALSE]

\* snapshot.forEach of the chats callback: conversations without a last message are skipped
RECURSIVE MessageNotifications(_)
MessageNotifications(snap) ==
  IF snap = <<>> THEN <<>>
  ELSE (IF Head(snap).text # "" THEN <<MessageNotification(Head(snap))>> ELSE <<>>)
       \o MessageNotifications(Tail(snap))

\* snapshot.forEach of the reviews callback
RECURSIVE ReviewNotifications(_)
ReviewNotifications(snap) ==
  IF snap = <<>> THEN <<>>
  ELSE <<ReviewNotification(Head(snap))>> \o ReviewNotifications(Tail(snap))

FilterKeepType(seq, type) == SelectSeq(seq, LAMBDA n : n.type = type)

\* prev.filter(n => n.type !== type)
FilterOutType(seq, type) == SelectSeq(seq, LAMBDA n : n.type # type)

\* Array.prototype.sort((a, b) => b.timestamp - a.timestamp): a stable sort,
\* newest first
RECURSIVE InsertByTime(_, _)
InsertByTime(sorted, n) ==
  IF sorted = <<>> THEN <<n>>
  ELSE IF Head(sorted).timestamp >= n.timestamp
       THEN <<Head(sorted)>> \o InsertByTime(Tail(sorted), n)
       ELSE <<n>> \o sorted

RECURSIVE SortByTimeDesc(_)
SortByTimeDesc(seq) ==
  IF seq = <<>> THEN <<>>
  ELSE InsertByTime(SortByTimeDesc(SubSeq(seq, 1, Len(seq) - 1)), seq[Len(seq)])

\* The updater of setNotifications in a listener callback: the fresh events of
\* the callback's type replace the held ones of that type, then the sort.
MergeUnsorted(prev, fresh, type) == fresh \o FilterOutType(prev, type)

MergeKeepAll(prev, fresh, type) == SortByTimeDesc(fresh \o prev)

MergePreserveRead(prev, fresh, type) ==
  SortByTimeDesc([i \in 1..Len(fresh) |->
                    [fresh[i] EXCEPT !.read = \E j \in 1..Len(prev) :
                                                 prev[j].id = fresh[i].id /\ prev[j].read]]
                 \o FilterOutType(prev, type))

MergeResetAll(prev, fresh, type) ==
  LET rest == FilterOutType(prev, type)
  IN  SortByTimeDesc(fresh \o [i \in 1..Len(rest) |-> [rest[i] EXCEPT !.read = FALSE]])

MergeOverwrite(prev, fresh, type) == SortByTimeDesc(fresh)

Merge(prev, fresh, type) == SortByTimeDesc(fresh \o FilterOutType(prev, type))

\* notifications.filter(n => !n.read).length
Unread(seq) == Len(SelectSeq(seq, LAMBDA n : ~n.read))

\* The auth state changes to a signed-in user: the effect keyed on [user] runs
\* and attaches the chats and the reviews listener for that user.
SignIn(uid) ==
  /\ user = NoUser
  /\ user' = uid
  /\ notifSub' = [chats |-> uid, reviews |-> uid]
  /\ UNCHANGED <<lastOp, discVars, newMessage, chatVars, clock, msgVars, precedes, subVars,
                 notifications, unreadCount, countDue, lastChats, lastReviews>>

\* The auth state changes to signed out: the effect's cleanup runs
\* unsubscribeChats() and unsubscribeReviews(); the new run returns at !user.
SignOutChatsOnly ==
  /\ user # NoUser
  /\ user' = NoUser
  /\ notifSub' = [notifSub EXCEPT !.chats = NoUser]
  /\ UNCHANGED <<lastOp, discVars, newMessage, chatVars, clock, msgVars, precedes, subVars,
                 notifications, unreadCount, countDue, lastChats, lastReviews>>

SignOut ==
  /\ user # NoUser
  /\ user' = NoUser
  /\ notifSub' = [chats |-> NoUser, reviews |-> NoUser]
  /\ UNCHANGED <<lastOp, discVars, newMessage, chatVars, clock, msgVars, precedes, subVars,
                 notifications, unreadCount, countDue, lastChats, lastReviews>>

\* The chats listener's callback runs with a snapshot of its query.
OnChatsSnapshot(docs) ==
  /\ notifSub.chats # NoUser
  /\ LET snapshot == ChatsQuery(docs, notifSub.chats)
     IN  /\ notifications' = Merge(notifications, MessageNotifications(snapshot), "message")
         /\ lastChats' = snapshot
  /\ countDue' = TRUE
  /\ UNCHANGED <<discVars, newMessage, chatVars, clock, msgVars, precedes, subVars,
                 user, notifSub, unreadCount, lastReviews>>

\* The reviews listener's callback runs with a snapshot of its query.
OnReviewsSnapshot(docs) ==
  /\ notifSub.reviews # NoUser
  /\ LET snapshot == ReviewsQuery(docs, notifSub.reviews)
     IN  /\ notifications' = Merge(notifications, ReviewNotifications(snapshot), "review")
         /\ lastReviews' = snapshot
  /\ countDue' = TRUE
  /\ UNCHANGED <<discVars, newMessage, chatVars, clock, msgVars, precedes, subVars,
                 user, notifSub, unreadCount, lastChats>>

\* The effect keyed on [notifications] runs after the render that changed them.
CountEffect ==
  /\ countDue
  /\ unreadCount' = Unread(notifications)
  /\ countDue' = FALSE
  /\ UNCHANGED <<lastOp, discVars, newMessage, chatVars, clock, msgVars, precedes, subVars,
                 user, notifSub, notifications, lastChats, lastReviews>>

MarkReadToggle(seq, notificationId) ==
  [i \in 1..Len(seq) |-> IF seq[i].id = notificationId THEN [seq[i] EXCEPT !.read = ~@] ELSE seq[i]]

\* prev.map(n => n.id === notificationId ? { ...n, read: true } : n)
MarkRead(seq, notificationId) ==
  [i \in 1..Len(seq) |-> IF seq[i].id = notificationId THEN [seq[i] EXCEPT !.read = TRUE] ELSE seq[i]]

MarkAllReadMessages(seq) ==
  [i \in 1..Len(seq) |-> IF seq[i].type = "message" THEN [seq[i] EXCEPT !.read = TRUE] ELSE seq[i]]

\* prev.map(n => ({ ...n, read: true }))
MarkAllRead(seq) == [i \in 1..Len(seq) |-> [seq[i] EXCEPT !.read = TRUE]]

\* A notification of the list is pressed.
MarkAsRead(notificationId) ==
  /\ notifications' = MarkRead(notifications, notificationId)
  /\ countDue' = TRUE
  /\ UNCHANGED <<discVars, newMessage, chatVars, clock, msgVars, precedes, subVars,
                 user, notifSub, unreadCount, lastChats, lastReviews>>

\* "Marcar todas como lidas" is pressed; it is rendered while unreadCount > 0.
MarkAllAsRead ==
  /\ unreadCount > 0
  /\ notifications' = MarkAllRead(notifications)
  /\ countDue' = TRUE
  /\ UNCHANGED <<discVars, newMessage, chatVars, clock, msgVars, precedes, subVars,
                 user, notifSub, unreadCount, lastChats, lastReviews>>

NotificationIds == ({"message"} \X NotifChatIds) \cup ({"review"} \X ReviewIds)

InitNotif == InitChat

NextNotif ==
  \/ \E uid \in NotifUsers : SignIn(uid)
  \/ SignOut
  \/ \E docs \in ChatDocSets : OnChatsSnapshot(docs) /\ UNCHANGED lastOp
  \/ \E docs \in ReviewDocSets : OnReviewsSnapshot(docs) /\ UNCHANGED lastOp
  \/ CountEffect
  \/ \E id \in NotificationIds : MarkAsRead(id) /\ UNCHANGED lastOp
  \/ MarkAllAsRead /\ UNCHANGED lastOp

SpecNotif == InitNotif /\ [][NextNotif]_vars

\* The notification button with a record of its last write to the feed.
\* lastOp names the step that wrote the feed last; for a listener callback it
\* also tells whether the write turned a read event of its kind into an unread one.
ResetsRead(prev, next, type) ==
  \E i \in 1..Len(prev), j \in 1..Len(next) :
    /\ prev[i].type = type /\ prev[i].read
    /\ next[j].id = prev[i].id /\ ~next[j].read

FeedChats(docs) ==
  /\ OnChatsSnapshot(docs)
  /\ lastOp' = [op |-> "chats", reset |-> ResetsRead(notifications, notifications', "message")]

FeedReviews(docs) ==
  /\ OnReviewsSnapshot(docs)
  /\ lastOp' = [op |-> "reviews", reset |-> ResetsRead(notifications, notifications', "review")]

FeedMarkAsRead(notificationId) ==
  /\ MarkAsRead(notificationId)
  /\ lastOp' = [op |-> "markRead", reset |-> FALSE]

FeedMarkAllAsRead ==
  /\ MarkAllAsRead
  /\ lastOp' = [op |-> "markAll", reset |-> FALSE]

\* the states of the 'chats' collection in which every conversation has a last message
ChatDocSetsWithMessage == {docs \in ChatDocSets : \A d \in docs : d.text # ""}

\* One session of user u1.
NextFeed ==
  \/ SignIn("u1")
  \/ SignOut
  \/ \E docs \in ChatDocSetsWithMessage : FeedChats(docs)
  \/ \E docs \in ReviewDocSets : FeedReviews(docs)
  \/ CountEffect
  \/ \E id \in NotificationIds : FeedMarkAsRead(id)
  \/ FeedMarkAllAsRead

SpecFeed == InitNotif /\ [][NextFeed]_vars

\* The chat screen and the notification button share no state: a behaviour of
\* this specification runs the one or the other from the initial state.
MsgIdle   == /\ messages = {} /\ nSent = 0 /\ subChat = NoId /\ msgView = <<>>
             /\ \A u \in MsgUsers : sends[u].pc = "idle"
NotifIdle == /\ user = NoUser /\ notifications = <<>> /\ ~countDue
             /\ lastChats = <<>> /\ lastReviews = <<>>

NextScreens ==
  \/ NotifIdle /\ NextMsgLive
  \/ MsgIdle /\ NextNotif

SpecScreens == InitMsg /\ [][NextScreens]_vars

\* ------------------------------------------------ the notification list
\* Times of this part are in milliseconds.  A label is the number and the
\* unit of the template string (`${minutes}m`); 'Agora' carries no number.
FormatTimeInclusive(now, date) ==
  LET diff == now - date
      minutes == diff \div 60000
      hours == diff \div 3600000
      days == diff \div 86400000
  IN  IF minutes < 1 THEN [number |-> 0, unit |-> "Agora"]
      ELSE IF minutes <= 60 THEN [number |-> minutes, unit |-> "m"]
      ELSE IF hours <= 24 THEN [number |-> hours, unit |-> "h"]
      ELSE [number |-> days, unit |-> "d"]

\* formatTime(date), with new Date() returning `now`; Math.floor of a quotient
\* by a positive number is \div
FormatTime(now, date) ==
  LET diff == now - date
      minutes == diff \div 60000
      hours == diff \div 3600000
      days == diff \div 86400000
  IN  IF minutes < 1 THEN [number |-> 0, unit |-> "Agora"]
      ELSE IF minutes < 60 THEN [number |-> minutes, unit |-> "m"]
      ELSE IF hours < 24 THEN [number |-> hours, unit |-> "h"]
      ELSE [number |-> days, unit |-> "d"]

\* the timestamps of the events on display
Stamps == {100000, 100001, 160000}

\* the moments at which the list is rendered: before the first timestamp, and
\* around one minute, one hour, one day and two days after it
Nows ==
  {100000 + d : d \in {-1, 0, 59999, 60000, 60001, 3599999, 3600000, 3600001,
                       86399999, 86400000, 86400001, 172799999, 172800000}}

\* the states of the 'chats' collection with millisecond timestamps: each
\* conversation of u1 that exists has a last message
StampedChats ==
  UNION {{{[id |-> i, text |-> "a", time |-> f[i]] : i \in ids} : f \in [ids -> Stamps]} :
           ids \in SUBSET NotifChatIds}

\* The list of the modal is rendered at `now`: one row per event of the feed,
\* with formatTime(notification.timestamp).
RenderList(now) ==
  /\ notifications # <<>>
  /\ timeShown' = [at |-> now,
                   labels |-> [i \in 1..Len(notifications) |->
                                 [date |-> notifications[i].timestamp,
                                  label |-> FormatTime(now, notifications[i].timestamp)]]]
  /\ UNCHANGED <<chatVars, clock, msgVars, precedes, subVars, notifVars, lastOp,
                 listVars, queryVars, screen, users, newMessage>>

NextFormat ==
  \/ SignIn("u1")
  \/ \E docs \in StampedChats : OnChatsSnapshot(docs) /\ UNCHANGED lastOp
  \/ \E now \in Nows : RenderList(now)

SpecFormat == InitNotif /\ [][NextFormat]_vars

\* ------------------------------------------- claims on the subscriptions
\* the feed without its read flags
Events(seq) == [i \in 1..Len(seq) |-> [seq[i] EXCEPT !.read = FALSE]]

\* C6: once a listener is released its callback does not run again: while the
\* chat screen's listener is released the message list does not change, the
\* notification button releases its two listeners together, and while they are
\* released the events of the feed do not change.
C6_NoDeliveryAfterRelease ==
  /\ [][subChat = NoId => msgView' = msgView]_vars
  /\ [](user = NoUser => notifSub.chats = NoUser /\ notifSub.reviews = NoUser)
  /\ [][user = NoUser => Events(notifications') = Events(notifications)]_vars

\* C6 witness: the chat screen's listener is released, the list it delivered is
\* still held, and a message stored since then is not in it.
C6_Witness ==
  /\ subChat = NoId
  /\ msgView # <<>>
  /\ \E m \in messages : m.id \notin ViewIds

\* ------------------------------------------ claims on the notification feed
FeedIndex == 1..Len(notifications)

\* C7: the feed holds at most one event per (kind, source id).
C7_OneEventPerSource ==
  \A i \in FeedIndex, j \in FeedIndex :
    (notifications[i].type = notifications[j].type
       /\ notifications[i].id[2] = notifications[j].id[2]) => i = j

\* C7 witness: events of both kinds are held, two of them of one kind, after a
\* mark-read.
C7_Witness ==
  /\ Len(notifications) >= 3
  /\ \E i \in FeedIndex : notifications[i].type = "message" /\ notifications[i].read
  /\ \E i \in FeedIndex : notifications[i].type = "review"

\* the events of a kind the feed holds equal those a snapshot yields: one per
\* document (for a conversation: with a last message), with its text and time
HoldsExactly(type, snap) ==
  /\ \A k \in 1..Len(snap) :
       (type = "message" => snap[k].text # "") =>
         \E i \in FeedIndex :
           /\ notifications[i].id = <<type, snap[k].id>>
           /\ notifications[i].type = type
           /\ notifications[i].message = snap[k].text
           /\ notifications[i].timestamp = snap[k].time
  /\ \A i \in FeedIndex :
       notifications[i].type = type =>
         \E k \in 1..Len(snap) :
           /\ notifications[i].id = <<type, snap[k].id>>
           /\ notifications[i].message = snap[k].text
           /\ notifications[i].timestamp = snap[k].time
           /\ (type = "message" => snap[k].text # "")

\* C8: the events of a kind in the feed are those of the latest snapshot of
\* that kind: an event whose document the snapshot lacks is gone.
C8_WholesaleReplace ==
  /\ HoldsExactly("message", lastChats)
  /\ HoldsExactly("review", lastReviews)

\* C8 witness: the latest chats snapshot holds one conversation with a last
\* message, the feed holds that message event only, beside review events.
C8_Witness ==
  /\ Len(lastChats) = 1
  /\ Len(lastReviews) = 2
  /\ Len(notifications) = 3

\* C9: the feed is sorted by timestamp, newest first.
C9_NewestFirst ==
  \A i \in FeedIndex, j \in FeedIndex :
    i < j => notifications[i].timestamp >= notifications[j].timestamp

\* C9 witness: events of both kinds with different timestamps, a read one among them.
C9_Witness ==
  /\ Len(notifications) >= 3
  /\ notifications[1].timestamp > notifications[Len(notifications)].timestamp
  /\ notifications[1].type # notifications[2].type
  /\ \E i \in FeedIndex : notifications[i].read

\* C10: unreadCount is the number of unread events of the feed in every state.
C10_UnreadCountInSync == unreadCount = Unread(notifications)

\* ------------------------------------------- claims on marking events read
AllRead(seq) == \A i \in 1..Len(seq) : seq[i].read
SourceOps == {"chats", "reviews"}

\* C11: markAllAsRead sets every event of the feed read and adds, removes and
\* reorders nothing; the count effect it schedules sets unreadCount to 0, and
\* only a listener callback brings an unread event back.
C11_MarkAllAsRead ==
  /\ [][lastOp'.op = "markAll" =>
          AllRead(notifications') /\ Events(notifications') = Events(notifications)]_vars
  /\ [](AllRead(notifications) /\ ~countDue => unreadCount = 0)
  /\ [][AllRead(notifications) /\ ~AllRead(notifications') => lastOp'.op \in SourceOps]_vars

\* C11 witness: markAllAsRead wrote the feed last, the feed holds events of
\* both kinds, and the count effect has run.
C11_Witness ==
  /\ lastOp.op = "markAll"
  /\ ~countDue /\ unreadCount = 0
  /\ \E i \in FeedIndex : notifications[i].type = "message"
  /\ \E i \in FeedIndex : notifications[i].type = "review"

\* C12: markAsRead(id) sets the read flag of the event with that id and changes
\* nothing else: same events in the same order, no read flag cleared, a second
\* application changes nothing, and an id the feed lacks changes nothing.
C12_MarkAsRead ==
  /\ [](\A id \in NotificationIds :
          LET r == MarkRead(notifications, id)
          IN  /\ Len(r) = Len(notifications)
              /\ Events(r) = Events(notifications)
              /\ \A i \in FeedIndex : r[i].read = (notifications[i].read \/ notifications[i].id = id)
              /\ MarkRead(r, id) = r
              /\ (\A i \in FeedIndex : notifications[i].id # id) => r = notifications)
  /\ [][lastOp'.op = "markRead" =>
          /\ Events(notifications') = Events(notifications)
          /\ \A i \in FeedIndex : notifications[i].read => notifications'[i].read]_vars

\* C12 witness: markAsRead wrote the feed last and left a read event beside an
\* unread one.
C12_Witness ==
  /\ lastOp.op = "markRead"
  /\ \E i \in FeedIndex : notifications[i].read
  /\ \E i \in FeedIndex : ~notifications[i].read

\* C19: after a listener callback every event of the callback's kind is unread,
\* also one that was read before and is still in the snapshot, and the count
\* effect counts it.
C19_ReadResetByRefresh ==
  /\ lastOp.op = "chats" =>
       /\ HoldsExactly("message", lastChats)
       /\ \A i \in FeedIndex : notifications[i].type = "message" => ~notifications[i].read
  /\ lastOp.op = "reviews" =>
       /\ HoldsExactly("review", lastReviews)
       /\ \A i \in FeedIndex : notifications[i].type = "review" => ~notifications[i].read
  /\ ~countDue => unreadCount = Unread(notifications)

\* C19 witness: the chats callback wrote the feed last and turned a read
\* message event back to unread, and the count effect has counted it.
C19_Witness ==
  /\ lastOp = [op |-> "chats", reset |-> TRUE]
  /\ ~countDue
  /\ unreadCount >= 1

\* the events of one kind, in feed order
EventsOfType(seq, type) == SelectSeq(seq, LAMBDA n : n.type = type)

\* C20: a chats callback leaves the review events as they were, read flags
\* included, and a reviews callback leaves the message events as they were.
C20_CrossKindFrame ==
  [][/\ lastOp'.op = "chats" =>
          EventsOfType(notifications', "review") = EventsOfType(notifications, "review")
     /\ lastOp'.op = "reviews" =>
          EventsOfType(notifications', "message") = EventsOfType(notifications, "message")]_vars

\* C20 witness: the chats callback wrote the feed last, a review event read
\* before it is still read, and a message event is unread beside it.
C20_Witness ==
  /\ lastOp.op = "chats"
  /\ \E i \in FeedIndex : notifications[i].type = "review" /\ notifications[i].read
  /\ \E i \in FeedIndex : notifications[i].type = "message"

\* the events a sequence holds, as a set
EventSet(seq) == {Events(seq)[i] : i \in 1..Len(seq)}

\* C21: whatever the order in which the two listeners' callbacks ran, the
\* events of the feed are those built from the latest chats snapshot together
\* with those built from the latest reviews snapshot: the set of events is a
\* function of the two latest snapshots alone.
C21_InterleavingIndependence ==
  EventSet(notifications) =
    EventSet(MessageNotifications(lastChats)) \cup EventSet(ReviewNotifications(lastReviews))

\* C21 witness: callbacks of both listeners have run, the latest snapshots both
\* hold documents, and the feed holds a message event and a review event of
\* the same timestamp, with the review event first (its callback ran last).
C21_Witness ==
  /\ lastChats # <<>> /\ lastReviews # <<>>
  /\ \E i \in FeedIndex :
       /\ i < Len(notifications)
       /\ notifications[i].type = "review"
       /\ notifications[i + 1].type = "message"
       /\ notifications[i].timestamp = notifications[i + 1].timestamp

\* the last message of the conversation's list as getChatMessages orders it
LastListed(chatId) ==
  LET list == OrderedMsgs(MsgsOf(messages, chatId)) IN list[Len(list)]

\* no two stored messages carry the same timestamp
DistinctTimestamps == \A m1 \in messages, m2 \in messages : m1.timestamp = m2.timestamp => m1 = m2

\* C22: when no sendMessage call is in flight (all calls having succeeded), the
\* conversation's lastMessage is the text of the last message of its
\* timestamp-ordered list.  Stated for the states in which the stored
\* timestamps differ, where the order of the list does not depend on ids.
C22_LastMessageConsistent ==
  (/\ \A u \in MsgUsers : ~Loading(u)
   /\ DistinctTimestamps) =>
    \A c \in chats :
      MsgsOf(messages, c.id) # {} => c.lastMessage = LastListed(c.id).text

\* an event of the feed derives from a conversation or a review of user uid
EventOf(n, uid) ==
  /\ uid # NoUser
  /\ IF n.type = "message" THEN Includes(ChatParticipants(n.id[2]), uid)
     ELSE ReviewProvider(n.id[2]) = uid

\* C29: every event of the feed derives from a conversation or a review of the
\* signed-in user (the feed is empty while nobody is signed in), and
\* unreadCount, once its effect has run, counts unread events of that user only.
C29_SessionScoped ==
  /\ \A i \in FeedIndex : EventOf(notifications[i], user)
  /\ ~countDue =>
       unreadCount = Len(SelectSeq(notifications, LAMBDA n : ~n.read /\ EventOf(n, user)))

\* C30: with d the milliseconds from an event's timestamp to the render, the
\* label is 'Agora' for d < 60000 (a timestamp in the future included), the
\* whole minutes of d below one hour, the whole hours of d below one day, and
\* the whole days of d from one day on; so minutes run from 1 to 59, hours
\* from 1 to 23 and days from 1.
C30_FormatTimeThresholds ==
  \A i \in 1..Len(timeShown.labels) :
    LET d == timeShown.at - timeShown.labels[i].date
        label == timeShown.labels[i].label
    IN  /\ d < 60000 => label.unit = "Agora"
        /\ (60000 <= d /\ d < 3600000) =>
             label.unit = "m" /\ label.number = d \div 60000 /\ label.number \in 1..59
        /\ (3600000 <= d /\ d < 86400000) =>
             label.unit = "h" /\ label.number = d \div 3600000 /\ label.number \in 1..23
        /\ 86400000 <= d =>
             label.unit = "d" /\ label.number = d \div 86400000 /\ label.number >= 1

\* C30 witness: two rows rendered one hour after the older event: the newer
\* event, one millisecond younger, shows 59m and the older one 1h.
C30_Witness ==
  /\ Len(timeShown.labels) = 2
  /\ timeShown.labels[1].label = [number |-> 59, unit |-> "m"]
  /\ timeShown.labels[2].label = [number |-> 1, unit |-> "h"]
  /\ timeShown.labels[1].date = timeShown.labels[2].date + 1

\* ------------------------------------------------------ provider discovery
\* Model of the discovery screens: app/(tabs)/index.tsx (HomeScreen, with
\* components/SearchFilters.tsx) and app/(tabs)/map.tsx (MapScreen).
\*
\* A string is a sequence of one-character strings, '' is <<>>.  A coordinate
\* is a position in km on a line and the distance of two coordinates is the
\* absolute difference: services/location is not part of the sources, its
\* calculateDistance is modelled from the specification (symmetric, zero iff
\* the coordinates are equal, never negative).
MaxLoads == 3   \* loadProviders calls issued in one behaviour

NoPos == -1     \* a provider document without latitude/longitude

\* the default coordinate of the home screen: data.latitude || -22.9068
DefaultPos == 0

\* limit(50) of the home screen's query
ResultLimit == 50

Distance(a, b) == IF a >= b THEN a - b ELSE b - a

UpperCase == <<"A", "B", "C", "D", "E", "F", "G", "H", "I", "J", "K", "L", "M",
               "N", "O", "P", "Q", "R", "S", "T", "U", "V", "W", "X", "Y", "Z">>
LowerCase == <<"a", "b", "c", "d", "e", "f", "g", "h", "i", "j", "k", "l", "m",
               "n", "o", "p", "q", "r", "s", "t", "u", "v", "w", "x", "y", "z">>

\* String.prototype.toLowerCase
ToLowerCase(str) ==
  [i \in 1..Len(str) |->
     IF \E k \in 1..Len(UpperCase) : UpperCase[k] = str[i]
     THEN LowerCase[CHOOSE k \in 1..Len(UpperCase) : UpperCase[k] = str[i]]
     ELSE str[i]]

\* String.prototype.includes
IncludesStr(str, sub) ==
  \E k \in 0..(Len(str) - Len(sub)) : SubSeq(str, k + 1, k + Len(sub)) = sub

\* Number.prototype.toString of a radius
ToString(n) == IF n < 10 THEN <<n>> ELSE <<n \div 10, n % 10>>

\* parseInt of a string of digits; NoRadius stands for NaN
RECURSIVE ParseInt(_)
ParseInt(str) ==
  IF str = <<>> THEN NoRadius
  ELSE IF Len(str) = 1 THEN str[1]
  ELSE 10 * ParseInt(SubSeq(str, 1, Len(str) - 1)) + str[Len(str)]

Encanador   == <<"E", "n", "c", "a", "n", "a", "d", "o", "r">>
Eletricista == <<"E", "l", "e", "t", "r", "i", "c", "i", "s", "t", "a">>
Centro      == <<"C", "e", "n", "t", "r", "o">>
Lapa        == <<"L", "a", "p", "a">>

\* 'users' documents the providers query matches (userType 'prestador',
\* isProfileComplete true), in the order getDocs returns them.  The third has
\* no coordinate, the fourth no displayName.
ProviderDocs ==
  << [uid |-> "p1", displayName |-> <<"A", "n", "a">>, serviceType |-> Encanador,
      neighborhood |-> Centro, pos |-> 3],
     [uid |-> "p2", displayName |-> <<"E", "n", "z", "o">>, serviceType |-> Eletricista,
      neighborhood |-> Lapa, pos |-> 9],
     [uid |-> "p3", displayName |-> <<"B", "i", "a">>, serviceType |-> Encanador,
      neighborhood |-> Lapa, pos |-> NoPos],
     [uid |-> "p4", displayName |-> <<>>, serviceType |-> Eletricista,
      neighborhood |-> Centro, pos |-> 1] >>

\* the coordinates getCurrentLocation() resolves with
Locations == {0, 6}

\* the position of a document in the fetch order
FetchIndex(uid) == CHOOSE i \in 1..Len(users) : users[i].uid = uid

\* The Provider object the home screen builds for a document; `origin` is the
\* userLocation of the render whose loadProviders is running.
HomeProvider(data, origin) ==
  LET pos == IF data.pos = NoPos THEN DefaultPos ELSE data.pos
  IN  [uid |-> data.uid, displayName |-> data.displayName, serviceType |-> data.serviceType,
       neighborhood |-> data.neighborhood, pos |-> pos,
       distance |-> IF origin # NoLoc THEN Distance(origin, pos) ELSE NoDist]

\* querySnapshot.forEach of the home screen: documents without displayName,
\* serviceType or neighborhood are skipped
RECURSIVE HomeProviders(_, _)
HomeProviders(docs, origin) ==
  IF docs = <<>> THEN <<>>
  ELSE (IF Head(docs).displayName = <<>> \/ Head(docs).serviceType = <<>>
           \/ Head(docs).neighborhood = <<>>
        THEN <<>> ELSE <<HomeProvider(Head(docs), origin)>>)
       \o HomeProviders(Tail(docs), origin)

\* (a.distance || 0)
DistanceOrZero(p) == IF p.distance = NoDist THEN 0 ELSE p.distance

\* providersData.sort((a, b) => (a.distance || 0) - (b.distance || 0)): a
\* stable sort, closest first
RECURSIVE InsertByDistance(_, _)
InsertByDistance(sorted, p) ==
  IF sorted = <<>> THEN <<p>>
  ELSE IF DistanceOrZero(Head(sorted)) <= DistanceOrZero(p)
       THEN <<Head(sorted)>> \o InsertByDistance(Tail(sorted), p)
       ELSE <<p>> \o sorted

RECURSIVE SortByDistanceReversed(_)
SortByDistanceReversed(seq) ==
  IF seq = <<>> THEN <<>>
  ELSE InsertByDistance(SortByDistanceReversed(Tail(seq)), Head(seq))

RECURSIVE SortByDistance(_)
SortByDistance(seq) ==
  IF seq = <<>> THEN <<>>
  ELSE InsertByDistance(SortByDistance(SubSeq(seq, 1, Len(seq) - 1)), seq[Len(seq)])

\* what a loadProviders call of the home screen passes to setProviders
HomeLoadResult(origin) == SortByDistance(HomeProviders(Take(users, ResultLimit), origin))

FilterProvidersAnyOf(provs, service, hood, text, origin, radius) ==
  SelectSeq(provs, LAMBDA p :
    \/ service # <<>> /\ IncludesStr(ToLowerCase(p.serviceType), ToLowerCase(service))
    \/ hood # <<>> /\ p.neighborhood = hood
    \/ text # <<>> /\ (\/ IncludesStr(ToLowerCase(p.displayName), ToLowerCase(text))
                       \/ IncludesStr(ToLowerCase(p.serviceType), ToLowerCase(text)))
    \/ origin # NoLoc /\ DistanceOrZero(p) <= radius)

\* filterProviders: the filters are applied one after the other, each only
\* when it is set, the radius filter only when userLocation is known
FilterProviders(provs, service, hood, text, origin, radius) ==
  LET byService == IF service # <<>>
                   THEN SelectSeq(provs, LAMBDA p :
                          IncludesStr(ToLowerCase(p.serviceType), ToLowerCase(service)))
                   ELSE provs
      byHood    == IF hood # <<>>
                   THEN SelectSeq(byService, LAMBDA p : p.neighborhood = hood)
                   ELSE byService
      byText    == IF text # <<>>
                   THEN SelectSeq(byHood, LAMBDA p :
                          \/ IncludesStr(ToLowerCase(p.displayName), ToLowerCase(text))
                          \/ IncludesStr(ToLowerCase(p.serviceType), ToLowerCase(text)))
                   ELSE byHood
  IN  IF origin # NoLoc
      THEN SelectSeq(byText, LAMBDA p : DistanceOrZero(p) <= radius)
      ELSE byText

\* what no step of a discovery screen changes
coreVars == <<chatVars, clock, msgVars, precedes, subVars, notifVars, lastOp, screen, users,
             newMessage, timeShown>>

\* A loadProviders call awaiting getDocs: the userLocation (and, on the map
\* screen, the searchRadius) of the render it was created in, and whether
\* onRefresh awaits it.
Load(origin, radius, refresh) == [origin |-> origin, radius |-> radius, refresh |-> refresh]

RemoveAt(seq, i) == SubSeq(seq, 1, i - 1) \o SubSeq(seq, i + 1, Len(seq))

\* loadProviders is entered: setLoading(true), the query is built and getDocs is issued.
BeginLoad(origin, radius, refresh) ==
  /\ nLoads < MaxLoads
  /\ nLoads' = nLoads + 1
  /\ loads' = Append(loads, Load(origin, radius, refresh))
  /\ loading' = TRUE

\* the values the filter controls can set
ServiceChoices      == {<<>>, ToLowerCase(Encanador)}
NeighborhoodChoices == {<<>>, Lapa}
SearchTexts         == {<<>>, <<"E", "N">>}

\* the first three of quickRadiusOptions = [1, 5, 10, 15, 20]
QuickRadiusOptions == <<1, 5, 10>>

\* what the radius modal's text field can hold when "Aplicar" is pressed
TempRadiusTexts == {<<>>, <<5, 0>>}

\* what an earlier session can have left under 'searchRadius'
SavedAtStart == {NoValue, ToString(10)}

\* The home screen is mounted: the first effect has called getCurrentLocation,
\* loadSearchRadius and loadProviders (with userLocation still null).
InitHome ==
  /\ MessagingIdle
  /\ providers = <<>>
  /\ filteredProviders = <<>>
  /\ selectedService = <<>>
  /\ selectedNeighborhood = <<>>
  /\ searchText = <<>>
  /\ userLocation = NoLoc
  /\ searchRadius = DefaultRadius
  /\ loading = TRUE
  /\ refreshing = FALSE
  /\ savedRadius \in SavedAtStart
  /\ saving = NotSaving
  /\ loads = <<Load(NoLoc, NoRadius, FALSE)>>
  /\ nLoads = 1
  /\ loadOutcome = "none"
  /\ filterDue = FALSE
  /\ loadDue = FALSE
  /\ locPending = TRUE
  /\ radiusPending = TRUE
  /\ refreshes = <<>>
  /\ screen = "home"

\* getCurrentLocation() of the mount effect resolves: setUserLocation.
\* userLocation is no dependency of the filter effect.
LocationResolved(loc) ==
  /\ screen = "home"
  /\ ~filterDue
  /\ locPending
  /\ locPending' = FALSE
  /\ userLocation' = loc
  /\ UNCHANGED <<coreVars, listVars, selectedService, selectedNeighborhood, searchText,
                 searchRadius, savedRadius, saving, radiusPending>>

\* loadSearchRadius: getItem resolves; a stored value is parsed and set.
RadiusLoaded ==
  /\ screen = "home"
  /\ ~filterDue
  /\ radiusPending
  /\ radiusPending' = FALSE
  /\ searchRadius' = IF savedRadius # NoValue THEN ParseInt(savedRadius) ELSE searchRadius
  /\ filterDue' = (filterDue \/ searchRadius' # searchRadius)
  /\ UNCHANGED <<coreVars, providers, filteredProviders, loading, refreshing, loads, nLoads,
                 loadOutcome, loadDue, refreshes,
                 selectedService, selectedNeighborhood, searchText, userLocation,
                 savedRadius, saving, locPending>>

\* loadSearchRadius: getItem rejects, the catch block logs.
RadiusLoadFail ==
  /\ ~filterDue /\ ~loadDue
  /\ radiusPending
  /\ radiusPending' = FALSE
  /\ UNCHANGED <<coreVars, listVars, selectedService, selectedNeighborhood, searchText,
                 userLocation, searchRadius, savedRadius, saving, locPending>>

\* getDocs of a loadProviders call resolves: the list is built, sorted and
\* set; finally setLoading(false); an onRefresh awaiting it goes on to
\* setRefreshing(false).
LoadDone(i) ==
  /\ screen = "home"
  /\ ~filterDue
  /\ i \in 1..Len(loads)
  /\ providers' = HomeLoadResult(loads[i].origin)
  /\ loading' = FALSE
  /\ refreshing' = (refreshing /\ ~loads[i].refresh)
  /\ loads' = RemoveAt(loads, i)
  /\ loadOutcome' = "done"
  /\ filterDue' = TRUE
  /\ UNCHANGED <<coreVars, queryVars, filteredProviders, nLoads, loadDue, refreshes>>

LoadFailClearsList(i) ==
  /\ ~filterDue /\ ~loadDue
  /\ i \in 1..Len(loads)
  /\ providers' = <<>>
  /\ loading' = FALSE
  /\ refreshing' = (refreshing /\ ~loads[i].refresh)
  /\ loads' = RemoveAt(loads, i)
  /\ loadOutcome' = "failed"
  /\ filterDue' = TRUE
  /\ UNCHANGED <<coreVars, queryVars, filteredProviders, nLoads, loadDue, refreshes>>

\* getDocs of a loadProviders call rejects: the catch block logs and shows a
\* toast; finally setLoading(false); an onRefresh awaiting it goes on to
\* setRefreshing(false).
LoadFail(i) ==
  /\ ~filterDue /\ ~loadDue
  /\ i \in 1..Len(loads)
  /\ loading' = FALSE
  /\ refreshing' = (refreshing /\ ~loads[i].refresh)
  /\ loads' = RemoveAt(loads, i)
  /\ loadOutcome' = "failed"
  /\ UNCHANGED <<coreVars, queryVars, providers, filteredProviders, nLoads, filterDue,
                 loadDue, refreshes>>

\* The effect keyed on [providers, selectedService, selectedNeighborhood,
\* searchText, searchRadius] runs filterProviders of the current render.  React
\* runs the effects of a render before it processes the next update, so every
\* other step of the screen waits for a scheduled filter effect.
FilterEffect ==
  /\ filterDue
  /\ filteredProviders' = FilterProviders(providers, selectedService, selectedNeighborhood,
                                          searchText, userLocation, searchRadius)
  /\ filterDue' = FALSE
  /\ UNCHANGED <<coreVars, queryVars, providers, loading, refreshing, loads, nLoads,
                 loadOutcome, loadDue, refreshes>>

\* onServiceFilter
SetSelectedService(service) ==
  /\ screen = "home"
  /\ ~filterDue
  /\ service # selectedService
  /\ selectedService' = service
  /\ filterDue' = TRUE
  /\ UNCHANGED <<coreVars, providers, filteredProviders, loading, refreshing, loads, nLoads,
                 loadOutcome, loadDue, refreshes,
                 selectedNeighborhood, searchText, userLocation, searchRadius,
                 savedRadius, saving, locPending, radiusPending>>

\* onNeighborhoodFilter
SetSelectedNeighborhood(hood) ==
  /\ screen = "home"
  /\ ~filterDue
  /\ hood # selectedNeighborhood
  /\ selectedNeighborhood' = hood
  /\ filterDue' = TRUE
  /\ UNCHANGED <<coreVars, providers, filteredProviders, loading, refreshing, loads, nLoads,
                 loadOutcome, loadDue, refreshes,
                 selectedService, searchText, userLocation, searchRadius,
                 savedRadius, saving, locPending, radiusPending>>

\* onSearchText
SetSearchText(text) ==
  /\ screen = "home"
  /\ ~filterDue
  /\ text # searchText
  /\ searchText' = text
  /\ filterDue' = TRUE
  /\ UNCHANGED <<coreVars, providers, filteredProviders, loading, refreshing, loads, nLoads,
                 loadOutcome, loadDue, refreshes,
                 selectedService, selectedNeighborhood, userLocation, searchRadius,
                 savedRadius, saving, locPending, radiusPending>>

\* A quick radius option is tapped: onRadiusChange(radius), that is
\* setSearchRadius(radius) and loadProviders().  Nothing is written to AsyncStorage.
QuickRadius(radius) ==
  /\ screen = "home"
  /\ ~filterDue
  /\ searchRadius' = radius
  /\ filterDue' = (filterDue \/ radius # searchRadius)
  /\ BeginLoad(userLocation, NoRadius, FALSE)
  /\ UNCHANGED <<coreVars, providers, filteredProviders, refreshing, loadOutcome, loadDue,
                 refreshes, selectedService, selectedNeighborhood, searchText, userLocation,
                 savedRadius, saving, locPending, radiusPending>>

\* "Aplicar" of the radius modal: handleRadiusChange parses the text and, for
\* a radius in 1..50, awaits AsyncStorage.setItem.
ApplyRadius(text) ==
  /\ screen = "home"
  /\ ~filterDue
  /\ saving = NotSaving
  /\ nLoads < MaxLoads
  /\ ParseInt(text) >= 1 /\ ParseInt(text) <= 50
  /\ saving' = [radius |-> ParseInt(text), origin |-> userLocation]
  /\ UNCHANGED <<coreVars, listVars, selectedService, selectedNeighborhood, searchText,
                 userLocation, searchRadius, savedRadius, locPending, radiusPending>>

\* setItem resolves: the value is stored, then onRadiusChange(radius).
SaveDone ==
  /\ screen = "home"
  /\ ~filterDue
  /\ saving # NotSaving
  /\ savedRadius' = ToString(saving.radius)
  /\ searchRadius' = saving.radius
  /\ filterDue' = (filterDue \/ saving.radius # searchRadius)
  /\ BeginLoad(saving.origin, NoRadius, FALSE)
  /\ saving' = NotSaving
  /\ UNCHANGED <<coreVars, providers, filteredProviders, refreshing, loadOutcome, loadDue,
                 refreshes, selectedService, selectedNeighborhood, searchText, userLocation,
                 locPending, radiusPending>>

\* setItem rejects: the catch block logs, the radius stays as it was.
SaveFail ==
  /\ screen = "home"
  /\ ~filterDue
  /\ saving # NotSaving
  /\ saving' = NotSaving
  /\ UNCHANGED <<coreVars, listVars, selectedService, selectedNeighborhood, searchText,
                 userLocation, searchRadius, savedRadius, locPending, radiusPending>>

\* Pull to refresh: onRefresh sets refreshing and awaits getCurrentLocation().
Refresh ==
  /\ screen = "home"
  /\ ~filterDue
  /\ ~refreshing
  /\ nLoads + Len(refreshes) < MaxLoads
  /\ refreshing' = TRUE
  /\ refreshes' = Append(refreshes, [origin |-> userLocation, radius |-> NoRadius])
  /\ UNCHANGED <<coreVars, queryVars, providers, filteredProviders, loading, loads, nLoads,
                 loadOutcome, filterDue, loadDue>>

\* getCurrentLocation() of onRefresh resolves: setUserLocation, then
\* loadProviders() of the render onRefresh was created in.
RefreshLocated(loc) ==
  /\ screen = "home"
  /\ ~filterDue
  /\ refreshes # <<>>
  /\ userLocation' = loc
  /\ BeginLoad(Head(refreshes).origin, NoRadius, TRUE)
  /\ refreshes' = Tail(refreshes)
  /\ UNCHANGED <<coreVars, providers, filteredProviders, refreshing, loadOutcome, filterDue,
                 loadDue, selectedService, selectedNeighborhood, searchText, searchRadius,
                 savedRadius, saving, locPending, radiusPending>>

\* The home screen with its filter controls: the list is loaded and filtered
\* while the user sets and clears the three filters and taps quick radius options.
NextFilter ==
  \/ \E loc \in Locations : LocationResolved(loc)
  \/ RadiusLoaded
  \/ \E i \in 1..MaxLoads : LoadDone(i)
  \/ FilterEffect
  \/ \E service \in ServiceChoices : SetSelectedService(service)
  \/ \E hood \in NeighborhoodChoices : SetSelectedNeighborhood(hood)
  \/ \E text \in SearchTexts : SetSearchText(text)
  \/ \E k \in 1..Len(QuickRadiusOptions) : QuickRadius(QuickRadiusOptions[k])

\* the home screen over the documents of ProviderDocs
InitFilter == InitHome /\ users = ProviderDocs

SpecFilter == InitFilter /\ [][NextFilter]_vars

\* ------------------------------------------------------------ map screen
\* querySnapshot.forEach of the map screen: documents without displayName,
\* serviceType, neighborhood or coordinate are skipped; with userLocation
\* known the distance is computed and only providers within the searchRadius
\* of the render are kept
RECURSIVE MapProviders(_, _, _)
MapProviders(docs, origin, radius) ==
  IF docs = <<>> THEN <<>>
  ELSE LET data == Head(docs)
           provider == [uid |-> data.uid, displayName |-> data.displayName,
                        serviceType |-> data.serviceType, neighborhood |-> data.neighborhood,
                        pos |-> data.pos,
                        distance |-> IF origin # NoLoc THEN Distance(origin, data.pos) ELSE NoDist]
       IN  (IF data.displayName = <<>> \/ data.serviceType = <<>> \/ data.neighborhood = <<>>
               \/ data.pos = NoPos
            THEN <<>>
            ELSE IF origin # NoLoc /\ provider.distance > radius THEN <<>>
            ELSE <<provider>>)
           \o MapProviders(Tail(docs), origin, radius)

\* what a loadProviders call of the map screen passes to setProviders
MapLoadResult(origin, radius) == SortByDistance(MapProviders(users, origin, radius))

\* The map screen is mounted: the first effect has called getCurrentLocation
\* and loadSearchRadius; the effect keyed on [userLocation, searchRadius] ran
\* with userLocation null and loaded nothing.
InitMap ==
  /\ MessagingIdle
  /\ providers = <<>>
  /\ filteredProviders = <<>>
  /\ selectedService = <<>>
  /\ selectedNeighborhood = <<>>
  /\ searchText = <<>>
  /\ userLocation = NoLoc
  /\ searchRadius = DefaultRadius
  /\ loading = TRUE
  /\ refreshing = FALSE
  /\ savedRadius \in SavedAtStart
  /\ saving = NotSaving
  /\ loads = <<>>
  /\ nLoads = 0
  /\ loadOutcome = "none"
  /\ filterDue = FALSE
  /\ loadDue = FALSE
  /\ locPending = TRUE
  /\ radiusPending = TRUE
  /\ refreshes = <<>>
  /\ screen = "map"

\* getCurrentLocation() of the mount effect resolves: setUserLocation, which
\* schedules the load effect.
MapLocationResolved(loc) ==
  /\ screen = "map"
  /\ ~loadDue
  /\ locPending
  /\ nLoads + Len(refreshes) < MaxLoads
  /\ locPending' = FALSE
  /\ userLocation' = loc
  /\ loadDue' = TRUE
  /\ UNCHANGED <<coreVars, providers, filteredProviders, loading, refreshing, loads, nLoads,
                 loadOutcome, filterDue, refreshes,
                 selectedService, selectedNeighborhood, searchText,
                 searchRadius, savedRadius, saving, radiusPending>>

\* loadSearchRadius: getItem resolves; a stored value is parsed and set, and a
\* changed radius schedules the load effect.
MapRadiusLoaded ==
  /\ screen = "map"
  /\ ~loadDue
  /\ radiusPending
  /\ nLoads + Len(refreshes) < MaxLoads
  /\ radiusPending' = FALSE
  /\ searchRadius' = IF savedRadius # NoValue THEN ParseInt(savedRadius) ELSE searchRadius
  /\ loadDue' = (searchRadius' # searchRadius)
  /\ UNCHANGED <<coreVars, providers, filteredProviders, loading, refreshing, loads, nLoads,
                 loadOutcome, filterDue, refreshes,
                 selectedService, selectedNeighborhood, searchText, userLocation,
                 savedRadius, saving, locPending>>

\* The effect keyed on [userLocation, searchRadius]: with userLocation known it
\* calls loadProviders of the current render.  React runs the effects of a
\* render before it processes the next update.
LoadEffect ==
  /\ screen = "map"
  /\ loadDue
  /\ loadDue' = FALSE
  /\ IF userLocation # NoLoc
     THEN BeginLoad(userLocation, searchRadius, FALSE)
     ELSE UNCHANGED <<loads, nLoads, loading>>
  /\ UNCHANGED <<coreVars, queryVars, providers, filteredProviders, refreshing, loadOutcome,
                 filterDue, refreshes>>

\* getDocs of a loadProviders call of the map screen resolves.
MapLoadDone(i) ==
  /\ screen = "map"
  /\ ~loadDue
  /\ i \in 1..Len(loads)
  /\ providers' = MapLoadResult(loads[i].origin, loads[i].radius)
  /\ loading' = FALSE
  /\ refreshing' = (refreshing /\ ~loads[i].refresh)
  /\ loads' = RemoveAt(loads, i)
  /\ loadOutcome' = "done"
  /\ UNCHANGED <<coreVars, queryVars, filteredProviders, nLoads, filterDue, loadDue, refreshes>>

\* Pull to refresh on the map screen: onRefresh sets refreshing and awaits
\* getCurrentLocation().  Its loadProviders is that of the render it was
\* created in; the location it sets schedules the load effect as well.
MapRefresh ==
  /\ screen = "map"
  /\ ~loadDue
  /\ ~refreshing
  /\ nLoads + 2 * Len(refreshes) + 2 <= MaxLoads
  /\ refreshing' = TRUE
  /\ refreshes' = Append(refreshes, [origin |-> userLocation, radius |-> searchRadius])
  /\ UNCHANGED <<coreVars, queryVars, providers, filteredProviders, loading, loads, nLoads,
                 loadOutcome, filterDue, loadDue>>

\* getCurrentLocation() of onRefresh resolves: setUserLocation, then loadProviders().
MapRefreshLocated(loc) ==
  /\ screen = "map"
  /\ ~loadDue
  /\ refreshes # <<>>
  /\ userLocation' = loc
  /\ loadDue' = TRUE
  /\ BeginLoad(Head(refreshes).origin, Head(refreshes).radius, TRUE)
  /\ refreshes' = Tail(refreshes)
  /\ UNCHANGED <<coreVars, providers, filteredProviders, refreshing, loadOutcome, filterDue,
                 selectedService, selectedNeighborhood, searchText, searchRadius,
                 savedRadius, saving, locPending, radiusPending>>

\* The one or the other discovery screen is mounted.
InitDiscovery == (InitHome \/ InitMap) /\ users = ProviderDocs

NextDiscovery ==
  \/ \E loc \in Locations : LocationResolved(loc)
  \/ RadiusLoaded
  \/ RadiusLoadFail
  \/ \E i \in 1..MaxLoads : LoadDone(i)
  \/ \E i \in 1..MaxLoads : LoadFail(i)
  \/ FilterEffect
  \/ \E k \in 1..Len(QuickRadiusOptions) : QuickRadius(QuickRadiusOptions[k])
  \/ \E text \in TempRadiusTexts : ApplyRadius(text)
  \/ SaveDone
  \/ SaveFail
  \/ Refresh
  \/ \E loc \in Locations : RefreshLocated(loc)
  \/ \E loc \in Locations : MapLocationResolved(loc)
  \/ MapRadiusLoaded
  \/ LoadEffect
  \/ \E i \in 1..MaxLoads : MapLoadDone(i)
  \/ MapRefresh
  \/ \E loc \in Locations : MapRefreshLocated(loc)

SpecDiscovery == InitDiscovery /\ [][NextDiscovery]_vars

\* ---------------------------------------------------------- large collections
\* the number of matching documents ranges up to ResultLimit + MaxExtra
MaxExtra == 1

\* n matching documents, complete and with a coordinate: all 3 km from position
\* 0 but the one at index `near`, which is at position 0
CapUsers(n, near) ==
  [i \in 1..n |-> [uid |-> i, displayName |-> <<"A">>, serviceType |-> Encanador,
                   neighborhood |-> Centro, pos |-> IF i = near THEN 0 ELSE 3]]

CapCollections ==
  UNION {{CapUsers(n, near) : near \in {1, n}} :
           n \in (ResultLimit - 1)..(ResultLimit + MaxExtra)}

\* A discovery screen is mounted over a collection of about ResultLimit documents.
InitCap == (InitHome \/ InitMap) /\ users \in CapCollections

NextCap ==
  \/ \E loc \in Locations : LocationResolved(loc)
  \/ \E i \in 1..MaxLoads : LoadDone(i)
  \/ FilterEffect
  \/ Refresh
  \/ \E loc \in Locations : RefreshLocated(loc)
  \/ \E loc \in Locations : MapLocationResolved(loc)
  \/ LoadEffect
  \/ \E i \in 1..MaxLoads : MapLoadDone(i)

SpecCap == InitCap /\ [][NextCap]_vars

\* ------------------------------------------------------ claims on discovery
\* the list the mounted screen displays
Displayed == IF screen = "map" THEN providers ELSE filteredProviders
DisplayIndex == 1..Len(Displayed)

\* C13: while the origin is known, every provider of the displayed list is
\* within the search radius of the origin.
C13_RadiusBound ==
  userLocation # NoLoc =>
    \A i \in DisplayIndex : Distance(userLocation, Displayed[i].pos) <= searchRadius

\* two characters are the same letter, whatever their case
SameLetter(a, b) ==
  a = b \/ \E k \in 1..Len(UpperCase) : {a, b} = {UpperCase[k], LowerCase[k]}

\* sub occurs in str, case ignored
ContainsIgnoringCase(str, sub) ==
  \E k \in 0..(Len(str) - Len(sub)) : \A j \in 1..Len(sub) : SameLetter(str[k + j], sub[j])

\* a provider passes the three filters that are set
PassesFilters(p) ==
  /\ selectedService = <<>> \/ ContainsIgnoringCase(p.serviceType, selectedService)
  /\ selectedNeighborhood = <<>> \/ p.neighborhood = selectedNeighborhood
  /\ searchText = <<>> \/ ContainsIgnoringCase(p.displayName, searchText)
                       \/ ContainsIgnoringCase(p.serviceType, searchText)

\* a provider passes the radius filter, which applies while the origin is known
PassesRadius(p) == userLocation = NoLoc \/ DistanceOrZero(p) <= searchRadius

\* C14 as stated: filterProviders keeps, in order, exactly the loaded
\* providers that pass the service, neighborhood and free-text filters.
C14_FilterCompositionAsStated ==
  [][filterDue /\ ~filterDue' =>
       filteredProviders' = SelectSeq(providers, PassesFilters)]_vars

\* C14: filterProviders keeps, in order, exactly the loaded providers that pass
\* the service, neighborhood and free-text filters that are set and, while the
\* origin is known, whose distance (0 when none was computed) is at most the
\* search radius.
C14_FilterComposition ==
  [][filterDue /\ ~filterDue' =>
       filteredProviders' = SelectSeq(providers, LAMBDA p : PassesFilters(p) /\ PassesRadius(p))]_vars

\* C14 witness: with the service filter 'encanador' set and the origin known,
\* the displayed list holds a provider of service type 'Encanador' and no
\* other, and a loaded 'Encanador' beyond the radius is not displayed.
C14_Witness ==
  /\ ~filterDue
  /\ selectedService = ToLowerCase(Encanador)
  /\ userLocation # NoLoc
  /\ filteredProviders # <<>>
  /\ \A i \in DisplayIndex : filteredProviders[i].serviceType = Encanador
  /\ \E i \in 1..Len(providers) : providers[i].serviceType = Eletricista
  /\ \E i \in 1..Len(providers) :
       /\ providers[i].serviceType = Encanador
       /\ DistanceOrZero(providers[i]) > searchRadius
       /\ \A j \in DisplayIndex : filteredProviders[j].uid # providers[i].uid

\* a list is in ascending order of distance, a missing distance counting as 0,
\* and providers of equal distance are in fetch order
Ranked(seq) ==
  \A i \in 1..Len(seq), j \in 1..Len(seq) :
    i < j =>
      /\ DistanceOrZero(seq[i]) <= DistanceOrZero(seq[j])
      /\ DistanceOrZero(seq[i]) = DistanceOrZero(seq[j]) =>
           FetchIndex(seq[i].uid) < FetchIndex(seq[j].uid)

\* C15: the loaded list and the displayed list are ranked.
C15_Ranking == Ranked(providers) /\ Ranked(filteredProviders)

\* C15 witness: a loaded list of three with computed distances, the first two
\* at the same distance and the third farther away, and a displayed list.
C15_Witness ==
  /\ Len(providers) = 3
  /\ providers[1].distance # NoDist
  /\ providers[1].distance = providers[2].distance
  /\ providers[3].distance > providers[2].distance
  /\ filteredProviders # <<>>

\* C16: when the query of a loadProviders call fails, the loaded and the
\* displayed list stay as they are, loading becomes false, refreshing becomes
\* false when onRefresh awaited the call, and no call is issued.
C16_FailureKeepsList ==
  [][\A i \in 1..Len(loads) :
       (loads' = RemoveAt(loads, i) /\ loadOutcome' = "failed") =>
         /\ providers' = providers
         /\ filteredProviders' = filteredProviders
         /\ ~filterDue'
         /\ ~loading'
         /\ loads[i].refresh => ~refreshing'
         /\ nLoads' = nLoads]_vars

\* C16 witness: the call that ended last failed, no call is in flight, and the
\* list loaded before is still held and displayed.
C16_Witness ==
  /\ loadOutcome = "failed"
  /\ loads = <<>>
  /\ providers # <<>>
  /\ filteredProviders # <<>>
  /\ ~loading /\ ~refreshing

\* C17: the search radius is in 1..50, and a step in which the user changes it
\* leaves the value stored under 'searchRadius' equal to it.
C17_RadiusPersisted ==
  /\ [](searchRadius \in 1..50)
  /\ [][(searchRadius' # searchRadius /\ radiusPending' = radiusPending) =>
          ParseInt(savedRadius') = searchRadius']_vars

\* the coordinate stored in a provider's document (NoPos when it has none)
StoredPos(uid) == users[FetchIndex(uid)].pos

\* C23: while the origin is known, no provider whose document has no latitude
\* and longitude is in the displayed list.
C23_NoCoordinateExcluded ==
  userLocation # NoLoc => \A i \in DisplayIndex : StoredPos(Displayed[i].uid) # NoPos

\* no loadProviders or onRefresh call is in flight and no effect is scheduled
Settled == loads = <<>> /\ refreshes = <<>> /\ ~filterDue /\ ~loadDue

\* the loaded list carries the distances from the current origin
FromCurrentOrigin ==
  /\ userLocation # NoLoc
  /\ \A i \in 1..Len(providers) :
       providers[i].distance = Distance(userLocation, providers[i].pos)

\* a document the discovery query is to consider: complete, with a coordinate,
\* passing the set filters and within the search radius of the origin
Candidate(d) ==
  /\ d.displayName # <<>> /\ d.serviceType # <<>> /\ d.neighborhood # <<>>
  /\ d.pos # NoPos
  /\ PassesFilters(d)
  /\ Distance(userLocation, d.pos) <= searchRadius

\* C24: the displayed list has at most ResultLimit entries, and the limit is
\* applied last: once the list is loaded with the distances from the current
\* origin, no candidate left out of it is nearer than a provider it holds.
C24_ResultCap ==
  /\ Len(Displayed) <= ResultLimit
  /\ (Settled /\ FromCurrentOrigin) =>
       \A k \in 1..Len(users) :
         (Candidate(users[k]) /\ \A i \in DisplayIndex : Displayed[i].uid # users[k].uid) =>
           \A i \in DisplayIndex : DistanceOrZero(Displayed[i]) <= Distance(userLocation, users[k].pos)

=============================================================================
